---- MODULE Spec2Model ----
(***************************************************************************)
(* Quota accounting ledger (database.py), the analysis / referral /        *)
(* payment handlers (bot.py) and the lazy bot initialization of the        *)
(* webhook bridge (web_server.py) of the BERT chart scanner.               *)
(*                                                                         *)
(* The handlers are coroutines that all run on the one worker event loop   *)
(* (web_server.py submits one process_update coroutine per webhook         *)
(* request).  A coroutine runs without interruption between two awaits and *)
(* may be interleaved with other coroutines at every await.  The database  *)
(* functions are synchronous: each one runs inside one such segment.       *)
(***************************************************************************)
EXTENDS Integers, Sequences, FiniteSets, Bags, TLC

\* ------------------------------------------------------------------ bounds
MaxEvents == 2
MaxTick == 1
TicksPerDay == 2
MaxUses == 4
MaxTx == 1
MaxRenewals == 2
MaxRequests == 2
MaxBurst == 4
CodeSpace == 2

\* ------------------------------------------------------- program constants
FREE_DAILY_SCANS == 3
ENERGY_REFILL_STARS == 5
REFERRAL_BONUS_SCANS == 5
SignupBonus == 3
Unlimited == 999
PremiumDays == 30

\* user ids: two accounts, enough for a referrer and the user it refers
Users == {1, 2}
NULL == -1

\* timedelta(days=30 * months), in ticks
PremiumTicks(months) == PremiumDays * months * TicksPerDay

\* The instants at which the clock is sampled: the first ticks, and the
\* instant at which a premium month bought at time 0 runs out.
TimePoints == (0..MaxTick) \cup {PremiumTicks(1)}

\* datetime.utcnow().strftime("%Y-%m-%d"): the calendar day of an instant
Today(t) == t \div TicksPerDay

\* A user id outside Users whose code is the code of a user id in Users.
AllIds == Users \cup {1 + CodeSpace}

\* hashlib.md5(str(user_id)).hexdigest()[:8].upper(): the digest cut to a
\* code space of CodeSpace values (16^8 in the program), so that distinct
\* user ids can have the same code
RefCode(u) == <<"MD5", u % CodeSpace>>
\* a code that no user id has
BadCode == <<"MD5", CodeSpace>>
Codes == {RefCode(u) : u \in Users} \cup {BadCode}

Max(a, b) == IF a >= b THEN a ELSE b

\* webhook requests, each handled by its own HTTP thread (threaded=True)
Requests == 1..MaxRequests
\* the same with one more request: a failed attempt, its retry, and a
\* request that arrives after the retry
Callers == 1..(MaxRequests + 1)
\* Python's None for the module globals of web_server.py
None == 0

VARIABLES
    now,            \* datetime.utcnow(), in ticks
    users,          \* table users: user_id -> row
    daily_energy,   \* table daily_energy: <<user_id, date>> -> scans_used
    scans,          \* table scans: rows in id order (user_id of each row)
    transactions,   \* table transactions: rows in id order
    referrals,      \* table referrals: rows in id order
    inflight,       \* bag of handler coroutines on the worker loop
    submitted,      \* number of updates submitted to the worker loop
    use_true,       \* per user: use_scan calls that returned True
    use_false,      \* per user: flips at every use_scan call that returns False
    ref_true,       \* per new user: process_referral calls that returned True
    ref_false,      \* per new user: flips at every process_referral call that returns False
    create_raised,  \* user ids whose get_or_create_user call raised IntegrityError
    initialized,    \* web_server._initialized
    bot_loop,       \* web_server._bot_loop: None, or the loop of a worker thread
    bot_app,        \* web_server._bot_app: None, or an Application
    init_lock,      \* web_server._init_lock: free, or the request holding it
    threads,        \* the worker threads started, in start order
    inits,          \* the _async_init coroutines submitted, in submit order
    http            \* per webhook request: where its HTTP thread is

ledger == <<users, daily_energy, scans, transactions, referrals>>
vars == <<now, users, daily_energy, scans, transactions, referrals,
          inflight, submitted, use_true, use_false, ref_true, ref_false,
          create_raised,
          initialized, bot_loop, bot_app, init_lock, threads, inits, http>>
bridge == <<initialized, bot_loop, bot_app, init_lock, threads, inits, http>>
returns == <<use_true, use_false, ref_true, ref_false>>

\* The five tables as one value, so that the database functions compose.
DB == [users |-> users, daily_energy |-> daily_energy, scans |-> scans,
       transactions |-> transactions, referrals |-> referrals]

Commit(d) ==
    /\ users' = d.users
    /\ daily_energy' = d.daily_energy
    /\ scans' = d.scans
    /\ transactions' = d.transactions
    /\ referrals' = d.referrals

\* ------------------------------------------------------------ database.py

\* INSERT INTO users (user_id, username, first_name, referral_code):
\* the other columns take their defaults.
NewUserRow(u) ==
    [is_premium |-> 0, premium_until |-> NULL, total_scans |-> 0,
     referral_code |-> RefCode(u), referred_by |-> NULL, bonus_scans |-> 0]

\* referral_code TEXT UNIQUE: the insert fails when another row has the code.
CodeTaken(d, u) ==
    \E v \in DOMAIN d.users : d.users[v].referral_code = RefCode(u)

\* get_or_create_user: [db, raised]
GetOrCreateUser(d, u) ==
    IF u \in DOMAIN d.users THEN [db |-> d, raised |-> FALSE]
    ELSE IF CodeTaken(d, u) THEN [db |-> d, raised |-> TRUE]
    ELSE [db |-> [d EXCEPT !.users =
                     [v \in DOMAIN d.users \cup {u} |->
                         IF v = u THEN NewUserRow(u) ELSE d.users[v]]],
          raised |-> FALSE]

\* a usage lookup that ignores the date: the largest scans_used of the user
ScansUsedAnyDay(d, u, t) ==
    LET rows == {k \in DOMAIN d.daily_energy : k[1] = u}
    IN IF rows = {} THEN 0
       ELSE CHOOSE n \in {d.daily_energy[k] : k \in rows} :
               \A k \in rows : d.daily_energy[k] <= n

\* daily["scans_used"] if daily else 0
ScansUsedToday(d, u, t) ==
    IF <<u, Today(t)>> \in DOMAIN d.daily_energy
    THEN d.daily_energy[<<u, Today(t)>>] ELSE 0

\* get_energy_status taking a premium_until equal to now as still in the future
IsPremiumInclusive(row, t) ==
    /\ row.is_premium # 0
    /\ (row.premium_until = NULL \/ row.premium_until >= t)

\* user["is_premium"] and (not user["premium_until"] or premium_until > utcnow())
IsPremium(row, t) ==
    /\ row.is_premium # 0
    /\ (row.premium_until = NULL \/ row.premium_until > t)

\* max(0, FREE_DAILY_SCANS - scans_used_today)
BaseRemaining(used) == Max(0, FREE_DAILY_SCANS - used)

\* get_energy_status reporting the free bucket of a premium user like that of
\* any other user
GetEnergyStatusNoPremiumFree(d, u, t) ==
    LET row == d.users[u]
        used == ScansUsedToday(d, u, t)
        prem == IsPremium(row, t)
    IN [is_premium |-> prem,
        scans_used_today |-> used,
        free_remaining |-> BaseRemaining(used),
        bonus_scans |-> row.bonus_scans,
        total_remaining |-> IF prem THEN Unlimited
                            ELSE BaseRemaining(used) + row.bonus_scans,
        total_scans_ever |-> row.total_scans]

\* get_energy_status, for a user that has a users row
GetEnergyStatus(d, u, t) ==
    LET row == d.users[u]
        used == ScansUsedToday(d, u, t)
        prem == IsPremium(row, t)
    IN [is_premium |-> prem,
        scans_used_today |-> used,
        free_remaining |-> IF prem THEN Unlimited ELSE BaseRemaining(used),
        bonus_scans |-> row.bonus_scans,
        total_remaining |-> IF prem THEN Unlimited
                            ELSE BaseRemaining(used) + row.bonus_scans,
        total_scans_ever |-> row.total_scans]

\* A call of get_energy_status with any user id:
\* dict(conn.execute("SELECT * FROM users ...").fetchone()) raises TypeError
\* when fetchone() returns None, before the daily_energy row is looked up.
EnergyStatusCall(d, u, t) ==
    IF u \in DOMAIN d.users
    THEN [raised |-> FALSE, ret |-> GetEnergyStatus(d, u, t)]
    ELSE [raised |-> TRUE, ret |-> [scans_used_today |-> NULL]]

\* the exhaustion test with < in place of <=
NoEnergyStrict(energy) == energy.total_remaining < 0

\* if energy["total_remaining"] <= 0: return False
NoEnergy(energy) == energy.total_remaining <= 0

\* the bucket test off by one
UseFreeBucketOffByOne(energy) == energy.free_remaining > 1

\* if energy["free_remaining"] > 0: the free daily bucket is debited
UseFreeBucket(energy) == energy.free_remaining > 0

\* INSERT INTO daily_energy ... ON CONFLICT DO UPDATE SET scans_used = scans_used + 1
UpsertDaily(de, u, day) ==
    [k \in DOMAIN de \cup {<<u, day>>} |->
        IF k = <<u, day>>
        THEN (IF k \in DOMAIN de THEN de[k] + 1 ELSE 1)
        ELSE de[k]]

\* a bonus debit that writes the balance back unchanged
DebitBonusNone(b) == Max(0, b)

\* UPDATE users SET bonus_scans = MAX(0, bonus_scans - 1)
DebitBonus(b) == Max(0, b - 1)

\* a lifetime counter that is written back unchanged
CountScanNone(total) == total

\* UPDATE users SET total_scans = total_scans + 1
CountScan(total) == total + 1

\* use_scan: [db, ret]
UseScan(d, u, t) ==
    LET energy == GetEnergyStatus(d, u, t)
    IN IF NoEnergy(energy) THEN [db |-> d, ret |-> FALSE]
       ELSE LET d1 == IF UseFreeBucket(energy)
                      THEN [d EXCEPT !.daily_energy = UpsertDaily(@, u, Today(t))]
                      ELSE [d EXCEPT !.users[u].bonus_scans = DebitBonus(@)]
                d2 == [d1 EXCEPT !.users[u].total_scans = CountScan(@)]
            IN [db |-> d2, ret |-> TRUE]

\* add_bonus_scans with the sign of the amount reversed
AddBonusScansSubtracts(d, u, amount) ==
    LET d1 == IF u \in DOMAIN d.users
              THEN [d EXCEPT !.users[u].bonus_scans = @ - amount] ELSE d
    IN [d1 EXCEPT !.transactions =
           Append(@, [user_id |-> u, type |-> "scan_refill", amount |-> amount])]

\* add_bonus_scans: the UPDATE touches no row when the user has none
AddBonusScans(d, u, amount) ==
    LET d1 == IF u \in DOMAIN d.users
              THEN [d EXCEPT !.users[u].bonus_scans = @ + amount] ELSE d
    IN [d1 EXCEPT !.transactions =
           Append(@, [user_id |-> u, type |-> "scan_refill", amount |-> amount])]

\* set_premium
SetPremium(d, u, months, t) ==
    LET until == t + PremiumTicks(months)
        d1 == IF u \in DOMAIN d.users
              THEN [d EXCEPT !.users[u].is_premium = 1,
                             !.users[u].premium_until = until] ELSE d
    IN [d1 EXCEPT !.transactions =
           Append(@, [user_id |-> u, type |-> "premium", amount |-> months])]

\* a save_scan that keeps only the latest scan
SaveScanReplaces(d, u) == [d EXCEPT !.scans = <<u>>]

\* save_scan
SaveScan(d, u) == [d EXCEPT !.scans = Append(@, u)]

\* SELECT user_id FROM users WHERE referral_code = ?
Referrer(d, code) ==
    IF \E v \in DOMAIN d.users : d.users[v].referral_code = code
    THEN CHOOSE v \in DOMAIN d.users : d.users[v].referral_code = code
    ELSE NULL

\* the existing-referral lookup on the wrong column
AlreadyReferredByReferrer(d, u) ==
    \E i \in 1..Len(d.referrals) : d.referrals[i].referrer_id = u

\* SELECT id FROM referrals WHERE referred_id = ?
AlreadyReferred(d, u) ==
    \E i \in 1..Len(d.referrals) : d.referrals[i].referred_id = u

\* a referral check that lets a user redeem their own code
NoReferrer(referrer, new_user) == referrer = NULL

\* if not referrer or referrer["user_id"] == new_user_id: return False
NoReferrerOrSelf(referrer, new_user) == referrer = NULL \/ referrer = new_user

\* a referred-user update that records the referrer without the bonus
CreditReferredNoBonus(d, new_user, referrer) ==
    IF new_user \in DOMAIN d.users
    THEN [d EXCEPT !.users[new_user].referred_by = referrer]
    ELSE d

\* UPDATE users SET referred_by = ?, bonus_scans = bonus_scans + 3
\* WHERE user_id = new_user_id
CreditReferred(d, new_user, referrer) ==
    IF new_user \in DOMAIN d.users
    THEN [d EXCEPT !.users[new_user].referred_by = referrer,
                   !.users[new_user].bonus_scans = @ + SignupBonus]
    ELSE d

\* process_referral: [db, ret]
ProcessReferral(d, code, new_user) ==
    LET referrer == Referrer(d, code)
    IN IF NoReferrerOrSelf(referrer, new_user) THEN [db |-> d, ret |-> FALSE]
       ELSE IF AlreadyReferred(d, new_user) THEN [db |-> d, ret |-> FALSE]
       ELSE LET d1 == [d EXCEPT !.referrals =
                          Append(@, [referrer_id |-> referrer,
                                     referred_id |-> new_user,
                                     bonus_awarded |-> REFERRAL_BONUS_SCANS])]
                d2 == CreditReferred(d1, new_user, referrer)
                d3 == [d2 EXCEPT !.users[referrer].bonus_scans =
                                     @ + REFERRAL_BONUS_SCANS]
            IN [db |-> d3, ret |-> TRUE]

\* ------------------------------------------------------- coroutines (bot.py)

NoArg == <<"none">>
Kinds == {"photo", "document", "start", "payment"}
\* context.args[0] of /start, and the two invoice payloads of send_invoice
ArgsOf(kind) ==
    CASE kind = "start" -> Codes \cup {NoArg}
      [] kind = "payment" -> {<<"premium">>, <<"scans">>}
      [] OTHER -> {NoArg}

\* A coroutine: the update it handles, the await it is suspended at, and what
\* it has done so far (used: the result of its use_scan call, saved: its
\* save_scan ran, failed: its download or analysis failed or raised, dex: what
\* its enrich_analysis call returned).
NewEvent(kind, user, arg) ==
    [kind |-> kind, user |-> user, arg |-> arg, pc |-> "start",
     used |-> "no", saved |-> FALSE, failed |-> FALSE, dex |-> "no"]

InFlight == BagToSet(inflight)
Replace(e, e2) == inflight' = (inflight (-) SetToBag({e})) (+) SetToBag({e2})
Remove(e) == inflight' = inflight (-) SetToBag({e})

\* a handler that consumes energy whatever the analysis returned
ChargeOnAlways(outcome) == outcome \in {"success", "failed"}

\* if analysis.get("success"): the branch that consumes energy
ChargeOn(outcome) == outcome = "success"

\* handle_photo and handle_document_image ignore what use_scan returns:
\* save_scan runs whenever the success branch is taken
SaveAfter(ret) == TRUE

\* asyncio.run_coroutine_threadsafe(_bot_app.process_update(update), _bot_loop)
Submit(kind, user, arg) ==
    /\ submitted < MaxEvents
    /\ submitted' = submitted + 1
    /\ inflight' = inflight (+) SetToBag({NewEvent(kind, user, arg)})
    /\ UNCHANGED <<bridge, create_raised, now, ledger, returns>>

\* an energy check that lets every event through
OutOfScansNever(energy) == FALSE

\* if energy["total_remaining"] <= 0: the out-of-scans notice, then return
OutOfScans(energy) == energy.total_remaining <= 0

\* handle_photo / handle_document_image up to the first await:
\* get_or_create_user, the energy check, the out-of-scans or "Analyzing" reply
AnalysisStart(e) ==
    /\ e.kind \in {"photo", "document"} /\ e.pc = "start"
    /\ LET r == GetOrCreateUser(DB, e.user)
       IN IF r.raised
          THEN /\ Remove(e) /\ UNCHANGED ledger
               /\ create_raised' = create_raised \cup {e.user}
          ELSE /\ Commit(r.db)
               /\ UNCHANGED create_raised
               /\ IF OutOfScans(GetEnergyStatus(r.db, e.user, now))
                  THEN Replace(e, [e EXCEPT !.pc = "exhausted"])
                  ELSE Replace(e, [e EXCEPT !.pc = "analyzing"])
    /\ UNCHANGED <<bridge, now, submitted, returns>>

\* the "Analyzing" reply_text raises: it is outside the try block
AnalyzingReplyRaises(e) ==
    /\ e.kind \in {"photo", "document"} /\ e.pc = "analyzing"
    /\ Remove(e)
    /\ UNCHANGED <<bridge, create_raised, now, ledger, submitted, returns>>

\* The message the handler sends when the download or the analysis fails or
\* raises: handle_photo says the scan energy was not consumed.
ErrorPc(kind) == IF kind = "photo" THEN "not_consumed" ELSE "error_reply"

\* get_file / download_as_bytearray raise, analyze_chart raises or returns
\* success = False
AnalysisStep(e, outcome) ==
    /\ e.kind \in {"photo", "document"} /\ e.pc = "analyzing"
    /\ IF ChargeOn(outcome)
       THEN LET r == UseScan(DB, e.user, now)
                saves == e.kind = "document" /\ SaveAfter(r.ret)
                d == IF saves THEN SaveScan(r.db, e.user) ELSE r.db
            IN /\ Commit(d)
               /\ use_true' = IF r.ret THEN [use_true EXCEPT ![e.user] = @ + 1]
                              ELSE use_true
               /\ use_false' = IF r.ret THEN use_false
                               ELSE [use_false EXCEPT ![e.user] = ~@]
               /\ Replace(e, [e EXCEPT
                     !.pc = IF e.kind = "photo" THEN "edit"
                            ELSE IF saves THEN "enrich" ELSE "final",
                     !.used = IF r.ret THEN "true" ELSE "false",
                     !.saved = saves,
                     !.failed = outcome # "success"])
       ELSE /\ Replace(e, [e EXCEPT !.pc = ErrorPc(e.kind), !.failed = TRUE])
            /\ UNCHANGED <<ledger, use_true, use_false>>
    /\ UNCHANGED <<bridge, create_raised, now, submitted, ref_true, ref_false>>

\* what enrich_analysis returns: the parsed pair, or None
DexResults == {"data", "none"}

\* an enrichment whose failed lookup escapes as an exception
EnrichmentRaisesOnNone(dex) == dex = "none"

\* search_token returns None on a bad status, on no pairs, on a timeout and
\* on any exception, and enrich_analysis falls through to return None: the
\* await never raises into the handler
EnrichmentRaises(dex) == FALSE

\* handle_photo: edit_text and enrich_analysis return; save_scan runs
PhotoSave(e, dex) ==
    /\ e.kind = "photo" /\ e.pc = "edit"
    /\ IF EnrichmentRaises(dex)
       THEN UNCHANGED ledger /\ Replace(e, [e EXCEPT !.pc = ErrorPc(e.kind), !.dex = dex])
       ELSE IF SaveAfter(e.used = "true")
       THEN Commit(SaveScan(DB, e.user))
            /\ Replace(e, [e EXCEPT !.pc = "reply", !.saved = TRUE, !.dex = dex])
       ELSE UNCHANGED ledger /\ Replace(e, [e EXCEPT !.pc = "final", !.dex = dex])
    /\ UNCHANGED <<bridge, create_raised, now, submitted, returns>>

\* handle_document_image: enrich_analysis returns after save_scan
DocumentEnrich(e, dex) ==
    /\ e.kind = "document" /\ e.pc = "enrich"
    /\ IF EnrichmentRaises(dex)
       THEN Replace(e, [e EXCEPT !.pc = ErrorPc(e.kind), !.dex = dex])
       ELSE Replace(e, [e EXCEPT !.pc = "reply", !.dex = dex])
    /\ UNCHANGED <<bridge, create_raised, now, ledger, submitted, returns>>

\* handle_photo: analyzing_msg.edit_text raises after use_scan; the except
\* branch reports that the scan energy was not consumed
PhotoEditRaises(e) ==
    /\ e.kind = "photo" /\ e.pc = "edit"
    /\ Replace(e, [e EXCEPT !.pc = "not_consumed"])
    /\ UNCHANGED <<bridge, create_raised, now, ledger, submitted, returns>>

\* delete / reply_text raise after save_scan: the except branch
ReplyRaises(e) ==
    /\ e.kind \in {"photo", "document"} /\ e.pc = "reply"
    /\ Replace(e, [e EXCEPT !.pc = ErrorPc(e.kind)])
    /\ UNCHANGED <<bridge, create_raised, now, ledger, submitted, returns>>

\* start_command: get_or_create_user, then process_referral when the
\* command carries an argument
StartCommand(e) ==
    /\ e.kind = "start" /\ e.pc = "start"
    /\ LET r == GetOrCreateUser(DB, e.user)
       IN IF r.raised
          THEN /\ Remove(e) /\ UNCHANGED <<ledger, ref_true, ref_false>>
               /\ create_raised' = create_raised \cup {e.user}
          ELSE /\ Replace(e, [e EXCEPT !.pc = "final"])
               /\ UNCHANGED create_raised
               /\ IF e.arg # NoArg
                  THEN LET p == ProcessReferral(r.db, e.arg, e.user)
                       IN /\ Commit(p.db)
                          /\ ref_true' = IF p.ret THEN [ref_true EXCEPT ![e.user] = @ + 1]
                                         ELSE ref_true
                          /\ ref_false' = IF p.ret THEN ref_false
                                          ELSE [ref_false EXCEPT ![e.user] = ~@]
                  ELSE Commit(r.db) /\ UNCHANGED <<ref_true, ref_false>>
    /\ UNCHANGED <<bridge, now, submitted, use_true, use_false>>

\* successful_payment_handler: routed by the invoice payload
SuccessfulPayment(e) ==
    /\ e.kind = "payment" /\ e.pc = "start"
    /\ IF e.arg = <<"premium">>
       THEN Commit(SetPremium(DB, e.user, 1, now))
       ELSE Commit(AddBonusScans(DB, e.user, ENERGY_REFILL_STARS))
    /\ Replace(e, [e EXCEPT !.pc = "final"])
    /\ UNCHANGED <<bridge, create_raised, now, submitted, returns>>

\* the last await of a handler returns or raises: the coroutine ends
Finish(e) ==
    /\ e.pc \in {"exhausted", "reply", "not_consumed", "error_reply", "final"}
    /\ Remove(e)
    /\ UNCHANGED <<bridge, create_raised, now, ledger, submitted, returns>>

\* time passes
Tick ==
    /\ \E t \in TimePoints : t > now /\ now' = t
    /\ UNCHANGED <<bridge, create_raised, ledger, inflight, submitted, returns>>

Init ==
    /\ now = 0
    /\ users = << >>
    /\ daily_energy = << >>
    /\ scans = << >>
    /\ transactions = << >>
    /\ referrals = << >>
    /\ inflight = EmptyBag
    /\ submitted = 0
    /\ use_true = [u \in Users |-> 0]
    /\ use_false = [u \in Users |-> FALSE]
    /\ ref_true = [u \in Users |-> 0]
    /\ ref_false = [u \in Users |-> FALSE]
    /\ create_raised = {}
    /\ initialized = FALSE
    /\ bot_loop = None
    /\ bot_app = None
    /\ init_lock = None
    /\ threads = << >>
    /\ inits = << >>
    /\ http = [r \in Callers |->
                 [pc |-> "idle", init |-> None, concurrent |-> FALSE, status |-> None,
                  loop |-> None, upd |-> "none", waited |-> "no", app |-> None,
                  used_today |-> NULL]]

Next ==
    \/ \E k \in Kinds, u \in Users : \E a \in ArgsOf(k) : Submit(k, u, a)
    \/ \E e \in InFlight : AnalysisStart(e)
    \/ \E e \in InFlight : AnalyzingReplyRaises(e)
    \/ \E e \in InFlight :
          \E o \in {"download_raised", "analysis_raised", "failed", "success"} :
             AnalysisStep(e, o)
    \/ \E e \in InFlight : \E x \in DexResults : PhotoSave(e, x)
    \/ \E e \in InFlight : \E x \in DexResults : DocumentEnrich(e, x)
    \/ \E e \in InFlight : PhotoEditRaises(e)
    \/ \E e \in InFlight : ReplyRaises(e)
    \/ \E e \in InFlight : StartCommand(e)
    \/ \E e \in InFlight : SuccessfulPayment(e)
    \/ \E e \in InFlight : Finish(e)
    \/ Tick

Spec == Init /\ [][Next]_vars

\* ---------------------------------------------------------------------------
\* A burst: one user sends up to MaxBurst images, more than the daily
\* allowance, and their handlers are interleaved on the worker loop.

SubmitBurst(kind) ==
    /\ submitted < MaxBurst
    /\ submitted' = submitted + 1
    /\ inflight' = inflight (+) SetToBag({NewEvent(kind, 1, NoArg)})
    /\ UNCHANGED <<bridge, create_raised, now, ledger, returns>>

NextBurst ==
    \/ \E k \in {"photo", "document"} : SubmitBurst(k)
    \/ \E e \in InFlight : AnalysisStart(e)
    \/ \E e \in InFlight : AnalyzingReplyRaises(e)
    \/ \E e \in InFlight :
          \E o \in {"download_raised", "analysis_raised", "failed", "success"} :
             AnalysisStep(e, o)
    \/ \E e \in InFlight : \E x \in DexResults : PhotoSave(e, x)
    \/ \E e \in InFlight : \E x \in DexResults : DocumentEnrich(e, x)
    \/ \E e \in InFlight : PhotoEditRaises(e)
    \/ \E e \in InFlight : ReplyRaises(e)
    \/ \E e \in InFlight : Finish(e)

SpecBurst == Init /\ [][NextBurst]_vars

\* ---------------------------------------------------------------------------
\* The database functions called one after the other in any order, as the
\* handlers call them on the worker loop: each call is one uninterrupted
\* segment of a coroutine.

\* use_scan calls that returned True so far
RECURSIVE SumOver(_, _)
SumOver(f, S) ==
    IF S = {} THEN 0
    ELSE LET x == CHOOSE y \in S : TRUE IN f[x] + SumOver(f, S \ {x})
UseCalls == SumOver(use_true, Users)

\* get_or_create_user(user_id)
DbGetOrCreateUser(u) ==
    /\ u \notin DOMAIN users
    /\ LET r == GetOrCreateUser(DB, u)
       IN /\ Commit(r.db)
          /\ create_raised' = IF r.raised THEN create_raised \cup {u}
                              ELSE create_raised
    /\ UNCHANGED <<bridge, now, inflight, submitted, returns>>

\* use_scan(user_id), after the handler's get_or_create_user
DbUseScan(u) ==
    /\ u \in DOMAIN users
    /\ UseCalls < MaxUses
    /\ LET r == UseScan(DB, u, now)
       IN /\ Commit(r.db)
          /\ use_true' = IF r.ret THEN [use_true EXCEPT ![u] = @ + 1] ELSE use_true
          /\ use_false' = IF r.ret THEN use_false ELSE [use_false EXCEPT ![u] = ~@]
    /\ UNCHANGED <<bridge, create_raised, now, inflight, submitted, ref_true, ref_false>>

\* add_bonus_scans(user_id, amount) of a scans payment
DbAddBonusScans(u) ==
    /\ Len(transactions) < MaxTx
    /\ Commit(AddBonusScans(DB, u, ENERGY_REFILL_STARS))
    /\ UNCHANGED <<bridge, create_raised, now, inflight, submitted, returns>>

\* set_premium(user_id, months=1) of a premium payment
DbSetPremium(u) ==
    /\ Len(transactions) < MaxTx
    /\ Commit(SetPremium(DB, u, 1, now))
    /\ UNCHANGED <<bridge, create_raised, now, inflight, submitted, returns>>

\* process_referral(code, new_user_id), after start_command's get_or_create_user
DbProcessReferral(code, u) ==
    /\ u \in DOMAIN users
    /\ LET p == ProcessReferral(DB, code, u)
       IN /\ Commit(p.db)
          /\ ref_true' = IF p.ret THEN [ref_true EXCEPT ![u] = @ + 1] ELSE ref_true
          /\ ref_false' = IF p.ret THEN ref_false ELSE [ref_false EXCEPT ![u] = ~@]
    /\ UNCHANGED <<bridge, create_raised, now, inflight, submitted, use_true, use_false>>

NextLedger ==
    \/ \E u \in Users : DbGetOrCreateUser(u)
    \/ \E u \in Users : DbUseScan(u)
    \/ \E u \in Users : DbAddBonusScans(u)
    \/ \E u \in Users : DbSetPremium(u)
    \/ \E c \in Codes, u \in Users : DbProcessReferral(c, u)
    \/ Tick

SpecLedger == Init /\ [][NextLedger]_vars

\* ---------------------------------------------------------------------------
\* Accounts: get_or_create_user for every user id, among them one whose code
\* is taken, premium payments that can be repeated for the same account, and
\* process_referral calls with every code.

\* set_premium(user_id, months=1), also for an account that has premium
RenewPremium(u) ==
    /\ Len(transactions) < MaxRenewals
    /\ Commit(SetPremium(DB, u, 1, now))
    /\ UNCHANGED <<bridge, create_raised, now, inflight, submitted, returns>>

NextAccounts ==
    \/ \E u \in AllIds : DbGetOrCreateUser(u)
    \/ \E u \in AllIds : RenewPremium(u)
    \/ \E c \in Codes, u \in Users : DbProcessReferral(c, u)
    \/ Tick

SpecAccounts == Init /\ [][NextAccounts]_vars

\* ---------------------------------------------------------------------------
\* The bridge (web_server.py): HTTP threads calling _ensure_bot, the worker
\* threads it starts and the _async_init coroutines it submits.  Statements
\* of different threads interleave; a step is one statement or a run of
\* statements that touch no shared state in between.

bot == <<now, ledger, inflight, submitted, returns, create_raised>>

\* program counters of an HTTP thread that is inside _ensure_bot
InEnsure == {"ensure", "wait_loop", "submit", "await_init"}

Goto(r, pc) == http' = [http EXCEPT ![r].pc = pc]

\* telegram_webhook calls _ensure_bot: the unlocked "if _initialized: return"
Arrive(r) ==
    /\ http[r].pc = "idle"
    /\ LET others == {q \in Callers : http[q].pc \in InEnsure}
       IN http' = [q \in Callers |->
                     IF q = r
                     THEN [http[q] EXCEPT
                              !.pc = IF initialized THEN "webhook" ELSE "ensure",
                              !.concurrent = ~initialized /\ others # {}]
                     ELSE IF q \in others /\ ~initialized
                          THEN [http[q] EXCEPT !.concurrent = TRUE]
                          ELSE http[q]]
    /\ UNCHANGED <<bot, initialized, bot_loop, bot_app, init_lock, threads, inits>>

\* with _init_lock: the second "if _initialized: return", else thread.start()
Lock(r) ==
    /\ http[r].pc = "ensure"
    /\ init_lock = None
    /\ IF initialized
       THEN Goto(r, "webhook") /\ UNCHANGED <<init_lock, threads>>
       ELSE /\ init_lock' = r
            /\ threads' = Append(threads, "started")
            /\ Goto(r, "wait_loop")
    /\ UNCHANGED <<bot, initialized, bot_loop, bot_app, inits>>

\* _run_event_loop in a started thread: _bot_loop = loop; loop.run_forever()
RunEventLoop(i) ==
    /\ threads[i] = "started"
    /\ threads' = [threads EXCEPT ![i] = "running"]
    /\ bot_loop' = i
    /\ UNCHANGED <<bot, initialized, bot_app, init_lock, inits, http>>

\* the wait loop sees _bot_loop is not None and breaks
WaitLoop(r) ==
    /\ http[r].pc = "wait_loop"
    /\ bot_loop # None
    /\ Goto(r, "submit")
    /\ UNCHANGED <<bot, initialized, bot_loop, bot_app, init_lock, threads, inits>>

\* the wait loop runs its 50 rounds while _bot_loop is None
WaitLoopExpires(r) ==
    /\ http[r].pc = "wait_loop"
    /\ bot_loop = None
    /\ Goto(r, "submit")
    /\ UNCHANGED <<bot, initialized, bot_loop, bot_app, init_lock, threads, inits>>

\* asyncio.run_coroutine_threadsafe(_async_init(), _bot_loop): raises when
\* _bot_loop is None, which ends the with block and _ensure_bot
SubmitInit(r) ==
    /\ http[r].pc = "submit"
    /\ IF bot_loop = None
       THEN /\ init_lock' = None
            /\ Goto(r, "raised")
            /\ UNCHANGED inits
       ELSE /\ inits' = Append(inits, [loop |-> bot_loop, st |-> "queued"])
            /\ http' = [http EXCEPT ![r].pc = "await_init",
                                    ![r].init = Len(inits) + 1]
            /\ UNCHANGED init_lock
    /\ UNCHANGED <<bot, initialized, bot_loop, bot_app, threads>>

\* _async_init on its loop: _bot_app = _build_application(). A loop starts
\* the coroutines handed to it in the order of their submission.
AsyncInitBuild(k) ==
    /\ inits[k].st = "queued"
    /\ \A j \in 1..(k - 1) : inits[j].loop = inits[k].loop => inits[j].st # "queued"
    /\ inits' = [inits EXCEPT ![k].st = "built"]
    /\ bot_app' = k
    /\ UNCHANGED <<bot, initialized, bot_loop, init_lock, threads, http>>

\* await _bot_app.initialize(); await _bot_app.start() complete
AsyncInitDone(k) ==
    /\ inits[k].st = "built"
    /\ inits' = [inits EXCEPT ![k].st = "done"]
    /\ UNCHANGED <<bot, initialized, bot_loop, bot_app, init_lock, threads, http>>

\* one of the two awaits raises
AsyncInitRaises(k) ==
    /\ inits[k].st = "built"
    /\ inits' = [inits EXCEPT ![k].st = "raised"]
    /\ UNCHANGED <<bot, initialized, bot_loop, bot_app, init_lock, threads, http>>

\* future.result(timeout=30) returns: _initialized = True, the lock is released
InitResult(r) ==
    /\ http[r].pc = "await_init"
    /\ inits[http[r].init].st = "done"
    /\ initialized' = TRUE
    /\ init_lock' = None
    /\ Goto(r, "webhook")
    /\ UNCHANGED <<bot, bot_loop, bot_app, threads, inits>>

\* future.result(timeout=30) re-raises the exception of _async_init
InitResultRaises(r) ==
    /\ http[r].pc = "await_init"
    /\ inits[http[r].init].st = "raised"
    /\ init_lock' = None
    /\ Goto(r, "raised")
    /\ UNCHANGED <<bot, initialized, bot_loop, bot_app, threads, inits>>

\* future.result(timeout=30) raises TimeoutError; the coroutine stays on its loop
InitResultTimeout(r) ==
    /\ http[r].pc = "await_init"
    /\ inits[http[r].init].st \in {"queued", "built"}
    /\ init_lock' = None
    /\ Goto(r, "raised")
    /\ UNCHANGED <<bot, initialized, bot_loop, bot_app, threads, inits>>

\* telegram_webhook after _ensure_bot returned: 503 when _bot_app or
\* _bot_loop is None, else the try block is entered
WebhookCheck(r) ==
    /\ http[r].pc = "webhook"
    /\ http' = IF bot_app = None \/ bot_loop = None
               THEN [http EXCEPT ![r].pc = "done", ![r].status = 503]
               ELSE [http EXCEPT ![r].pc = "decode"]
    /\ UNCHANGED <<bot, initialized, bot_loop, bot_app, init_lock, threads, inits>>

\* request.get_json or Update.de_json raises: except Exception answers 200
DecodeRaises(r) ==
    /\ http[r].pc = "decode"
    /\ http' = [http EXCEPT ![r].pc = "done", ![r].status = 200,
                            ![r].waited = "decode_raised"]
    /\ UNCHANGED <<bot, initialized, bot_loop, bot_app, init_lock, threads, inits>>

\* Update.de_json(data, _bot_app.bot), then
\* asyncio.run_coroutine_threadsafe(_bot_app.process_update(update), _bot_loop):
\* the request thread reads the bot of the Application in _bot_app and calls
\* its process_update to make the coroutine it hands to the loop in _bot_loop
Dispatch(r) ==
    /\ http[r].pc = "decode"
    /\ http' = [http EXCEPT ![r].pc = "await_update", ![r].loop = bot_loop,
                            ![r].upd = "queued", ![r].app = bot_app]
    /\ UNCHANGED <<bot, initialized, bot_loop, bot_app, init_lock, threads, inits>>

\* the loop starts the process_update coroutine of request r
ProcessUpdateStart(r) ==
    /\ http[r].upd = "queued"
    /\ http' = [http EXCEPT ![r].upd = "running"]
    /\ UNCHANGED <<bot, initialized, bot_loop, bot_app, init_lock, threads, inits>>

\* the process_update coroutine returns
ProcessUpdateDone(r) ==
    /\ http[r].upd = "running"
    /\ http' = [http EXCEPT ![r].upd = "done"]
    /\ UNCHANGED <<bot, initialized, bot_loop, bot_app, init_lock, threads, inits>>

\* the process_update coroutine ends with an exception
ProcessUpdateRaises(r) ==
    /\ http[r].upd = "running"
    /\ http' = [http EXCEPT ![r].upd = "raised"]
    /\ UNCHANGED <<bot, initialized, bot_loop, bot_app, init_lock, threads, inits>>

\* a wait whose timeout cancels the coroutine it waited for
WebhookResponseCancels(r) ==
    /\ http[r].pc = "await_update"
    /\ http' = [http EXCEPT ![r].pc = "done", ![r].status = 200,
                            ![r].waited = CASE http[r].upd = "done" -> "returned"
                                            [] http[r].upd = "raised" -> "raised"
                                            [] OTHER -> "timeout",
                            ![r].upd = IF http[r].upd \in {"done", "raised"}
                                       THEN http[r].upd ELSE "cancelled"]
    /\ UNCHANGED <<bot, initialized, bot_loop, bot_app, init_lock, threads, inits>>

\* a webhook whose try block has no except clause: the exception of the
\* coroutine and the timeout of the wait leave telegram_webhook
WebhookResponseNoExcept(r) ==
    /\ http[r].pc = "await_update"
    /\ http' = IF http[r].upd = "done"
               THEN [http EXCEPT ![r].pc = "done", ![r].status = 200,
                                 ![r].waited = "returned"]
               ELSE [http EXCEPT ![r].pc = "raised",
                                 ![r].waited = IF http[r].upd = "raised"
                                               THEN "raised" ELSE "timeout"]
    /\ UNCHANGED <<bot, initialized, bot_loop, bot_app, init_lock, threads, inits>>

\* a webhook that hands its update to the loop again when the coroutine
\* raised or the wait timed out
WebhookResponseRetries(r) ==
    /\ http[r].pc = "await_update"
    /\ http' = IF http[r].upd = "done"
               THEN [http EXCEPT ![r].pc = "done", ![r].status = 200,
                                 ![r].waited = "returned"]
               ELSE [http EXCEPT ![r].upd = "queued",
                                 ![r].waited = IF http[r].upd = "raised"
                                               THEN "raised" ELSE "timeout"]
    /\ UNCHANGED <<bot, initialized, bot_loop, bot_app, init_lock, threads, inits>>

\* future.result(timeout=60) returns, re-raises or times out: the answer is
\* 200 in the try block and in the except block alike
WebhookResponse(r) ==
    /\ http[r].pc = "await_update"
    /\ http' = [http EXCEPT ![r].pc = "done", ![r].status = 200,
                            ![r].waited = CASE http[r].upd = "done" -> "returned"
                                            [] http[r].upd = "raised" -> "raised"
                                            [] OTHER -> "timeout"]
    /\ UNCHANGED <<bot, initialized, bot_loop, bot_app, init_lock, threads, inits>>

\* a step of the bridge with the requests R
BridgeStep(R) ==
    \/ \E r \in R : Arrive(r)
    \/ \E r \in R : Lock(r)
    \/ \E i \in 1..Len(threads) : RunEventLoop(i)
    \/ \E r \in R : WaitLoop(r)
    \/ \E r \in R : WaitLoopExpires(r)
    \/ \E r \in R : SubmitInit(r)
    \/ \E k \in 1..Len(inits) : AsyncInitBuild(k)
    \/ \E k \in 1..Len(inits) : AsyncInitDone(k)
    \/ \E k \in 1..Len(inits) : AsyncInitRaises(k)
    \/ \E r \in R : InitResult(r)
    \/ \E r \in R : InitResultRaises(r)
    \/ \E r \in R : InitResultTimeout(r)
    \/ \E r \in R : WebhookCheck(r)
    \/ \E r \in R : DecodeRaises(r)
    \/ \E r \in R : Dispatch(r)
    \/ \E r \in R : ProcessUpdateStart(r)
    \/ \E r \in R : ProcessUpdateDone(r)
    \/ \E r \in R : ProcessUpdateRaises(r)
    \/ \E r \in R : WebhookResponse(r)

NextBridge == BridgeStep(Requests)

SpecBridge == Init /\ [][NextBridge]_vars

\* a step of a process_update coroutine on its worker loop
WorkerStep ==
    \E r \in Requests :
        ProcessUpdateStart(r) \/ ProcessUpdateDone(r) \/ ProcessUpdateRaises(r)

\* loop.run_forever() keeps running the callbacks that are ready: while a
\* submitted coroutine has not ended, the worker takes a step.
WorkerFairness == WF_vars(WorkerStep)

SpecBridgeFair == SpecBridge /\ WorkerFairness

NextRetry == BridgeStep(Callers)

SpecRetry == Init /\ [][NextRetry]_vars

\* ---------------------------------------------------------------------------
\* The energy API: GET /api/energy/<user_id> requests served by the HTTP
\* threads while accounts are created and scans are consumed.

\* api_energy: jsonify(get_energy_status(user_id)); an exception of the call
\* leaves the view function
ApiEnergy(r, u) ==
    /\ http[r].pc = "idle"
    /\ LET c == EnergyStatusCall(DB, u, now)
       IN http' = IF c.raised
                  THEN [http EXCEPT ![r].pc = "raised"]
                  ELSE [http EXCEPT ![r].pc = "done", ![r].status = 200,
                                    ![r].used_today = c.ret.scans_used_today]
    /\ UNCHANGED <<bot, initialized, bot_loop, bot_app, init_lock, threads, inits>>

NextApi ==
    \/ \E u \in Users : DbGetOrCreateUser(u)
    \/ \E u \in Users : DbUseScan(u)
    \/ \E r \in Requests, u \in Users : ApiEnergy(r, u)
    \/ Tick

SpecApi == Init /\ [][NextApi]_vars

\* ---------------------------------------------------------------------------
\* Properties

Quiescent == inflight = EmptyBag

\* rows of scans of one user
ScanRows(u) == Cardinality({i \in 1..Len(scans) : scans[i] = u})

\* scans_used of the row of a user and day, 0 without a row
UsedOn(de, u, day) == IF <<u, day>> \in DOMAIN de THEN de[<<u, day>>] ELSE 0

\* free units a user has left on a day
FreeLeft(de, u, day) ==
    IF UsedOn(de, u, day) >= FREE_DAILY_SCANS THEN 0
    ELSE FREE_DAILY_SCANS - UsedOn(de, u, day)

\* is_premium set and premium_until in the future
PremiumActive(u) ==
    /\ u \in DOMAIN users
    /\ users[u].is_premium = 1
    /\ users[u].premium_until > now

NonPremium(u) == u \in DOMAIN users /\ ~PremiumActive(u)

\* units (free today + bonus) of a user before and after a step
UnitsBefore(u) == FreeLeft(daily_energy, u, Today(now)) + users[u].bonus_scans
UnitsAfter(u) == FreeLeft(daily_energy', u, Today(now')) + users'[u].bonus_scans

\* the step is a use_scan call of user u, returning True / returning False
UseReturnsTrue(u) == use_true'[u] = use_true[u] + 1
UseReturnsFalse(u) == use_false'[u] # use_false[u]
UseStep(u) == UseReturnsTrue(u) \/ UseReturnsFalse(u)

\* the step is a process_referral call for new user u
RefReturnsTrue(u) == ref_true'[u] = ref_true[u] + 1
RefReturnsFalse(u) == ref_false'[u] # ref_false[u]
RefStep(u) == RefReturnsTrue(u) \/ RefReturnsFalse(u)

HasReferral(rs, u) == \E i \in 1..Len(rs) : rs[i].referred_id = u

FailOutcomes == {"download_raised", "analysis_raised", "failed"}

\* C1 (as claimed): whenever no analysis event is in flight, every user has
\* exactly as many rows in scans as use_scan calls that returned True.
C1_ScanIffDebit ==
    Quiescent => \A u \in Users : ScanRows(u) = use_true[u]

\* C2: an analysis event whose download or analysis fails or raises writes
\* nothing: the failing step and every other step of that event leave users
\* (bonus_scans, total_scans), daily_energy and scans unchanged, and the event
\* has called neither use_scan nor save_scan.
C2_NoMutationOnFailure ==
    [][\A e \in InFlight :
          ((\E o \in FailOutcomes : AnalysisStep(e, o)) \/ (e.failed /\ Finish(e)))
          => /\ e.used = "no" /\ ~e.saved
             /\ UNCHANGED <<users, daily_energy, scans>>]_vars

\* C2 witness: an event whose analysis failed is in flight for a user who had
\* units to be charged
C2_Witness ==
    \E e \in InFlight :
        /\ e.failed /\ e.pc \in {"not_consumed", "error_reply"}
        /\ users[e.user].total_scans = 0
        /\ UsedOn(daily_energy, e.user, Today(now)) = 0

\* C3 (as claimed): whenever handle_photo is sending a reply that says the
\* scan energy was not consumed, the event has committed no debit.
C3_NotConsumedIsTrue ==
    \A e \in InFlight :
        (e.kind = "photo" /\ e.pc = "not_consumed") => e.used # "true"

C5_FreeBucketFirst ==
    [][\A u \in Users : (NonPremium(u) /\ UseReturnsTrue(u)) =>
          /\ FreeLeft(daily_energy, u, Today(now)) > 0 =>
                /\ UsedOn(daily_energy', u, Today(now)) =
                      UsedOn(daily_energy, u, Today(now)) + 1
                /\ users'[u].bonus_scans = users[u].bonus_scans
          /\ users'[u].bonus_scans < users[u].bonus_scans =>
                FreeLeft(daily_energy, u, Today(now)) = 0]_vars

\* C5 witness: a user who bought scans has used the whole allowance of the
\* day and one bonus scan
C5_Witness ==
    \E u \in DOMAIN users :
        /\ users[u].is_premium = 0
        /\ UsedOn(daily_energy, u, Today(now)) = FREE_DAILY_SCANS
        /\ users[u].bonus_scans = ENERGY_REFILL_STARS - 1
        /\ use_true[u] = FREE_DAILY_SCANS + 1

\* C6: for a non-premium user without a free unit today, use_scan returns
\* False and changes nothing when bonus_scans is 0, and returns True, takes
\* exactly 1 from bonus_scans and leaves today's scans_used alone when
\* bonus_scans is positive.
C6_ExhaustedThenBonus ==
    [][\A u \in Users :
          (NonPremium(u) /\ UseStep(u) /\ FreeLeft(daily_energy, u, Today(now)) = 0) =>
             IF users[u].bonus_scans = 0
             THEN UseReturnsFalse(u) /\ UNCHANGED ledger
             ELSE /\ UseReturnsTrue(u)
                  /\ users'[u].bonus_scans = users[u].bonus_scans - 1
                  /\ daily_energy' = daily_energy]_vars

\* C6 witness: a user was refused, then credited REFERRAL_BONUS_SCANS as a
\* referrer, then consumed one bonus scan, the day's scans_used staying at
\* the allowance
C6_Witness ==
    \E u \in DOMAIN users :
        /\ users[u].is_premium = 0
        /\ use_false[u]
        /\ \E i \in 1..Len(referrals) : referrals[i].referrer_id = u
        /\ users[u].bonus_scans = REFERRAL_BONUS_SCANS - 1
        /\ UsedOn(daily_energy, u, Today(now)) = FREE_DAILY_SCANS

\* C7: bonus_scans of every user is at least 0 in every reachable state.
C7_BonusNonNegative ==
    \A u \in DOMAIN users : users[u].bonus_scans >= 0

\* C7 witness: a credited user has consumed a bonus scan
C7_Witness ==
    \E u \in DOMAIN users :
        /\ users[u].total_scans > FREE_DAILY_SCANS
        /\ users[u].is_premium = 0
        /\ users[u].bonus_scans \in
              {SignupBonus - 1, REFERRAL_BONUS_SCANS - 1, ENERGY_REFILL_STARS - 1}

\* C8: while a user's premium is active every use_scan returns True and
\* leaves the user's bonus_scans unchanged.
C8_PremiumNeverDebitsBonus ==
    [][\A u \in Users : (PremiumActive(u) /\ UseStep(u)) =>
          /\ UseReturnsTrue(u)
          /\ users'[u].bonus_scans = users[u].bonus_scans]_vars

\* C8 witness: a premium user holding bonus scans has consumed more than the
\* daily allowance today
C8_Witness ==
    \E u \in DOMAIN users :
        /\ PremiumActive(u)
        /\ users[u].bonus_scans > 0
        /\ UsedOn(daily_energy, u, Today(now)) > FREE_DAILY_SCANS

\* C9 (as claimed): scans_used of every daily_energy row is at most
\* FREE_DAILY_SCANS.
C9_UsedWithinAllowance ==
    \A k \in DOMAIN daily_energy : daily_energy[k] <= FREE_DAILY_SCANS

\* C10: a process_referral call for a new user who already has a referrals
\* row returns False and changes no row; a call that returns True is the one
\* that creates the user's row, so the referrer is credited once.
C10_ReferralOnce ==
    [][\A u \in Users :
          /\ (RefStep(u) /\ HasReferral(referrals, u)) =>
                (RefReturnsFalse(u) /\ UNCHANGED ledger)
          /\ RefReturnsTrue(u) =>
                /\ ~HasReferral(referrals, u)
                /\ Len(referrals') = Len(referrals) + 1
                /\ ref_true'[u] = 1]_vars

\* C10 witness: a referred user's second call was refused, the referrer
\* holding one reward
C10_Witness ==
    \E u \in DOMAIN users :
        /\ ref_true[u] = 1 /\ ref_false[u]
        /\ users[u].referred_by # NULL
        /\ Len(referrals) = 1
        /\ users[users[u].referred_by].bonus_scans = REFERRAL_BONUS_SCANS


NoOwnerOrOwn(code, u) ==
    \/ \A v \in DOMAIN users : users[v].referral_code # code
    \/ users[u].referral_code = code

\* C12: a process_referral call whose code matches no account, or whose
\* code is the calling user's own, returns False and leaves every table
\* unchanged.
C12_BadCodeRefused ==
    [][\A c \in Codes, u \in Users :
          (DbProcessReferral(c, u) /\ NoOwnerOrOwn(c, u)) =>
             (RefReturnsFalse(u) /\ UNCHANGED ledger)]_vars

\* C12 witness: a call of a user was refused while the referrals table is
\* still empty, so the refusal was for the code and not for an earlier row
C12_Witness ==
    \E u \in Users \cap DOMAIN users :
        /\ ref_false[u] /\ ref_true[u] = 0
        /\ referrals = << >>
        /\ users[u].referred_by = NULL /\ users[u].bonus_scans = 0

\* the referrer of the row that a step appends to referrals
NewReferrer == referrals'[Len(referrals')].referrer_id

\* C13: a process_referral call that returns True applies its four effects
\* in one step: one referrals row for (referrer, new user), the reward
\* REFERRAL_BONUS_SCANS on the referrer's bonus_scans, the signup bonus on the
\* new user's bonus_scans, and the new user's referred_by; a step that is not
\* such a call applies none of them, so every state has a user's referred_by
\* set exactly when the user has a referrals row.
C13_ReferralAllOrNone ==
    [][/\ \A u \in Users : RefReturnsTrue(u) =>
             /\ referrals' = Append(referrals,
                                [referrer_id |-> NewReferrer, referred_id |-> u,
                                 bonus_awarded |-> REFERRAL_BONUS_SCANS])
             /\ NewReferrer \in DOMAIN users \ {u}
             /\ users'[NewReferrer].bonus_scans =
                   users[NewReferrer].bonus_scans + REFERRAL_BONUS_SCANS
             /\ users'[u].bonus_scans = users[u].bonus_scans + SignupBonus
             /\ users'[u].referred_by = NewReferrer
       /\ (\A u \in Users : ~RefReturnsTrue(u)) =>
             /\ referrals' = referrals
             /\ \A u \in DOMAIN users : users'[u].referred_by = users[u].referred_by
       /\ \A u \in DOMAIN users' :
             (users'[u].referred_by # NULL) <=> HasReferral(referrals', u)]_vars

\* C13 witness: after one successful call the row, both credits and the
\* referred_by are in place
C13_Witness ==
    \E u \in Users \cap DOMAIN users :
        /\ ref_true[u] = 1
        /\ Len(referrals) = 1 /\ referrals[1].referred_id = u
        /\ users[u].referred_by = referrals[1].referrer_id
        /\ users[u].bonus_scans = SignupBonus
        /\ users[referrals[1].referrer_id].bonus_scans = REFERRAL_BONUS_SCANS

\* rows of transactions of one user
TxRows(tx, u) == Cardinality({i \in 1..Len(tx) : tx[i].user_id = u})

\* C14 (as claimed): every step that raises a user's bonus_scans (a
\* purchase or a referral credit) or sets the user's premium appends exactly
\* one transactions row for that user.
C14_OneRowPerCredit ==
    [][\A u \in DOMAIN users :
          (\/ users'[u].bonus_scans > users[u].bonus_scans
           \/ users'[u].premium_until # users[u].premium_until
           \/ users'[u].is_premium # users[u].is_premium)
          => TxRows(transactions', u) = TxRows(transactions, u) + 1]_vars

\* the step appends a 'premium' transactions row for user u: a set_premium call
PremiumStep(u) ==
    /\ Len(transactions') = Len(transactions) + 1
    /\ transactions'[Len(transactions')].type = "premium"
    /\ transactions'[Len(transactions')].user_id = u

\* C15 (as claimed): a set_premium call for a user whose premium is active
\* sets premium_until to max(now, premium_until) + duration, and for a user
\* without active premium to now + duration.
C15_PremiumExtends ==
    [][\A u \in DOMAIN users : PremiumStep(u) =>
          users'[u].premium_until =
             IF PremiumActive(u)
             THEN Max(now, users[u].premium_until) + PremiumTicks(1)
             ELSE now + PremiumTicks(1)]_vars

\* the account's flag is set and its premium_until is unset or later than now
FlagSetAndNotExpired(u) ==
    /\ users[u].is_premium = 1
    /\ (users[u].premium_until = NULL \/ users[u].premium_until > now)

\* C16: in every state get_energy_status reports is_premium exactly when the
\* account's is_premium flag is set and premium_until is unset or later than
\* now; when it is not (also when premium_until has passed and the flag is
\* still set, no row having been written since) it reports free_remaining =
\* max(0, FREE_DAILY_SCANS - scans_used_today) and total_remaining =
\* free_remaining + bonus_scans.
C16_StatusFollowsExpiry ==
    \A u \in DOMAIN users :
        LET st == GetEnergyStatus(DB, u, now)
        IN /\ st.is_premium <=> FlagSetAndNotExpired(u)
           /\ ~FlagSetAndNotExpired(u) =>
                 /\ st.free_remaining = FreeLeft(daily_energy, u, Today(now))
                 /\ st.total_remaining =
                       FreeLeft(daily_energy, u, Today(now)) + users[u].bonus_scans

\* C16 witness: the flag of a user is still set at the instant premium_until
\* is reached, and the user holds bonus scans and has used a scan that day
C16_Witness ==
    \E u \in DOMAIN users :
        /\ users[u].is_premium = 1
        /\ users[u].premium_until = now
        /\ users[u].bonus_scans > 0
        /\ UsedOn(daily_energy, u, Today(now)) > 0
        /\ GetEnergyStatus(DB, u, now).total_remaining < Unlimited

\* C17 (as claimed): no get_or_create_user call raises, also not the call
\* for a new user id whose derived code is the code of an existing account.
C17_CollisionStillCreates ==
    \A u \in AllIds : u \notin create_raised

\* C18 (as claimed): every user id for which get_or_create_user has been
\* called has a users row from then on; no step changes the referral_code of
\* an existing row, and no two rows have the same code.
C18_CreateIdempotent ==
    [][/\ \A u \in create_raised' : u \in DOMAIN users'
       /\ \A u \in DOMAIN users :
             /\ u \in DOMAIN users'
             /\ users'[u].referral_code = users[u].referral_code
       /\ \A u, v \in DOMAIN users' :
             users'[u].referral_code = users'[v].referral_code => u = v]_vars

\* worker threads started, and Applications built by _build_application
ThreadsStarted == Len(threads)
ApplicationsBuilt == Cardinality({k \in 1..Len(inits) : inits[k].st # "queued"})

\* the HTTP thread of request r has returned from _ensure_bot
Returned(r) == http[r].pc \in {"webhook", "decode", "await_update", "done"}

\* C19 (as claimed): when a request that was inside _ensure_bot together
\* with another request, the bridge being uninitialized, has returned from
\* _ensure_bot, the initialization has completed and exactly one worker
\* thread was started and exactly one Application built.
C19_ConcurrentInitOnce ==
    \A r \in Requests : (http[r].concurrent /\ Returned(r)) =>
        /\ initialized
        /\ ThreadsStarted = 1
        /\ ApplicationsBuilt = 1

\* C20 (as claimed): at most one worker thread is ever started and at most
\* one Application is ever built.
C20_AtMostOneWorker ==
    ThreadsStarted <= 1 /\ ApplicationsBuilt <= 1

\* C21 (as claimed): no webhook request ends with an exception leaving
\* telegram_webhook, and every answered request has status 200 or 503.
C21_Answers200Or503 ==
    \A r \in Requests :
        /\ http[r].pc # "raised"
        /\ http[r].pc = "done" => http[r].status \in {200, 503}

\* the HTTP thread of request r is inside the try block of telegram_webhook
InTry(r) == http[r].pc \in {"decode", "await_update"}

\* C22: a request that has entered the try block of telegram_webhook (the
\* bridge is ready) leaves it only with the answer 200, whether decoding
\* raised, the process_update coroutine raised, or it returned; no step takes
\* the request out of the try block with an exception.
C22_ExceptionsAnswer200 ==
    [][\A r \in Requests : InTry(r) =>
          \/ InTry(r)'
          \/ http'[r].pc = "done" /\ http'[r].status = 200]_vars

\* C22 witness: one request was answered 200 after its body failed to
\* decode and another after its process_update coroutine raised
C22_Witness ==
    \E r, q \in Requests :
        /\ initialized
        /\ http[r].waited = "decode_raised" /\ http[r].status = 200
        /\ http[q].waited = "raised" /\ http[q].upd = "raised"
        /\ http[q].status = 200

\* request r was answered 200 when its 60-second wait ran out
TimedOut(r) ==
    http[r].waited = "timeout" /\ http[r].pc = "done" /\ http[r].status = 200

\* C23: a request whose 60-second wait ran out is answered 200, and its
\* process_update coroutine, left on the worker loop, ends there later: from
\* some point on, the coroutine of every request that timed out has ended (a
\* request that timed out stays timed out, an ended coroutine stays ended).
C23_TimeoutDoesNotCancel ==
    /\ [](\A r \in Requests : http[r].waited = "timeout" => TimedOut(r))
    /\ <>[](\A r \in Requests : TimedOut(r) => http[r].upd \in {"done", "raised"})

\* C23 witness: the coroutine of a request answered 200 on timeout has
\* returned after the answer
C23_Witness ==
    \E r \in Requests :
        /\ http[r].waited = "timeout" /\ http[r].status = 200
        /\ http[r].upd = "done"

\* handler coroutines that have run their first step and have not ended
Begun == {e \in InFlight : e.pc # "start"}

\* C24 (as claimed): at most one event is being processed at any time: while
\* a handler coroutine has begun and not ended, no other has begun.
C24_OneEventAtATime ==
    /\ Cardinality(Begun) <= 1
    /\ \A e \in Begun : CopiesIn(e, inflight) = 1

\* C25 (as claimed): the process_update coroutines that have started and
\* not ended, inside which the ledger mutations run, are all on one worker
\* loop, so that they run on one thread.
C25_SingleWorkerThread ==
    \A r, q \in Callers :
        (http[r].upd = "running" /\ http[q].upd = "running") =>
            http[r].loop = http[q].loop

\* C26 (as claimed): every event whose save_scan has run has had its
\* use_scan return True before: an event whose use_scan returned False, or
\* has not run, has inserted no scans row.
C26_SaveOnlyAfterUse ==
    \A e \in InFlight : e.saved => e.used = "true"

\* C27: an analysis event that starts when its user, not premium, has no
\* free unit left today and no bonus scans goes to the out-of-scans notice
\* with the ledger unchanged, and ends there with the ledger unchanged: it
\* never reaches the analysis, use_scan or save_scan.
C27_ExhaustedStops ==
    [][\A e \in InFlight :
          /\ (/\ AnalysisStart(e)
              /\ e.user \in DOMAIN users
              /\ NonPremium(e.user)
              /\ UnitsBefore(e.user) = 0)
             => /\ UNCHANGED ledger
                /\ Replace(e, [e EXCEPT !.pc = "exhausted"])
          /\ e.pc = "exhausted" =>
                /\ e.used = "no" /\ ~e.saved
                /\ Finish(e) => UNCHANGED ledger
                /\ Finish(e) \/ CopiesIn(e, inflight') >= CopiesIn(e, inflight)]_vars

\* C27 witness: an event is at the out-of-scans notice, its user having
\* used the whole allowance of the day
C27_Witness ==
    \E e \in InFlight :
        /\ e.pc = "exhausted"
        /\ UsedOn(daily_energy, e.user, Today(now)) = FREE_DAILY_SCANS
        /\ users[e.user].bonus_scans = 0
        /\ use_true[e.user] = FREE_DAILY_SCANS

\* the row that a step appends to transactions
NewTx == transactions'[Len(transactions')]

\* C28 (as claimed): a successful-payment event appends exactly one
\* transactions row for its user and changes the user's account: a premium
\* payload sets is_premium and premium_until by one set_premium call, a scans
\* payload adds the purchased amount to bonus_scans by one add_bonus_scans
\* call.
C28_PaymentAppliedOnce ==
    [][\A e \in InFlight : SuccessfulPayment(e) =>
          /\ Len(transactions') = Len(transactions) + 1
          /\ NewTx.user_id = e.user
          /\ e.user \in DOMAIN users'
          /\ e.arg = <<"premium">> =>
                /\ NewTx.type = "premium"
                /\ users'[e.user].is_premium = 1
                /\ users'[e.user].premium_until = now + PremiumTicks(1)
          /\ e.arg = <<"scans">> =>
                /\ NewTx.type = "scan_refill"
                /\ NewTx.amount = ENERGY_REFILL_STARS
                /\ e.user \in DOMAIN users
                /\ users'[e.user].bonus_scans =
                      users[e.user].bonus_scans + ENERGY_REFILL_STARS]_vars

\* C29: total_scans of a user never decreases; a use_scan call that returns
\* True adds exactly 1 to it, a call that returns False and every other step
\* leave it unchanged, so that in every state it is the number of the user's
\* use_scan calls that returned True.
C29_TotalScansCountsUses ==
    [][/\ \A u \in DOMAIN users :
             /\ users'[u].total_scans >= users[u].total_scans
             /\ UseReturnsTrue(u) => users'[u].total_scans = users[u].total_scans + 1
             /\ ~UseReturnsTrue(u) => users'[u].total_scans = users[u].total_scans
       /\ \A u \in DOMAIN users' : users'[u].total_scans = use_true'[u]]_vars

\* C29 witness: a user has total_scans above the daily allowance and was
\* refused once
C29_Witness ==
    \E u \in DOMAIN users :
        /\ users[u].total_scans = FREE_DAILY_SCANS + 1
        /\ use_true[u] = FREE_DAILY_SCANS + 1
        /\ use_false[u]

\* C30: a step writes no daily_energy row other than that of the current
\* UTC date: rows of other dates stay as they are and no row of another date
\* appears; a step that moves the clock to another date changes no table, so
\* bonus_scans carries over; and a non-premium user without a row for the
\* current date has the full allowance as free_remaining, whatever the rows of
\* earlier dates hold.
C30_PastDaysImmutable ==
    /\ [][/\ \A k \in DOMAIN daily_energy :
                /\ k \in DOMAIN daily_energy'
                /\ k[2] # Today(now) => daily_energy'[k] = daily_energy[k]
          /\ \A k \in DOMAIN daily_energy' \ DOMAIN daily_energy :
                k[2] = Today(now)
          /\ Today(now') # Today(now) => UNCHANGED ledger]_vars
    /\ [](\A u \in DOMAIN users :
             (NonPremium(u) /\ <<u, Today(now)>> \notin DOMAIN daily_energy) =>
                GetEnergyStatus(DB, u, now).free_remaining = FREE_DAILY_SCANS)

\* C30 witness: a user who used the whole allowance on an earlier date and
\* holds bonus scans has used one free scan on the current date, the bonus
\* untouched and the earlier row as it was
C30_Witness ==
    \E u \in DOMAIN users :
        /\ Today(now) # 0
        /\ UsedOn(daily_energy, u, 0) = FREE_DAILY_SCANS
        /\ UsedOn(daily_energy, u, Today(now)) = 1
        /\ users[u].bonus_scans \in {SignupBonus, REFERRAL_BONUS_SCANS}
        /\ users[u].is_premium = 0

\* the event as it stands once its enrichment returned None: its scan is
\* recorded and it is sending the primary analysis reply
AfterNone(e) == [e EXCEPT !.pc = "reply", !.saved = TRUE, !.dex = "none"]

\* C31: an event waiting for analyze_chart has not been through an analysis
\* before (no use_scan result, no failure, no saved scan, no enrichment), so
\* analyze_chart runs at most once per event; and the step in which the
\* enrichment returns None leaves the event with its scan recorded and at the
\* primary analysis reply: not at an error message, and with no scan row lost.
C31_EnrichmentNeverBlocks ==
    /\ [](\A e \in InFlight :
             e.pc = "analyzing" =>
                e.used = "no" /\ ~e.failed /\ ~e.saved /\ e.dex = "no")
    /\ [][\A e \in InFlight :
             (PhotoSave(e, "none") \/ DocumentEnrich(e, "none")) =>
                /\ CopiesIn(AfterNone(e), inflight') > CopiesIn(AfterNone(e), inflight)
                /\ ScanRows(e.user)' =
                      ScanRows(e.user) + (IF e.kind = "photo" THEN 1 ELSE 0)
                /\ e.kind = "document" => e.saved]_vars

\* C31 witness: a photo event and a document event whose enrichment returned
\* None are both at the primary reply with their scans recorded
C31_Witness ==
    \E e, f \in InFlight :
        /\ e.kind = "photo" /\ f.kind = "document"
        /\ e.dex = "none" /\ f.dex = "none"
        /\ e.pc = "reply" /\ f.pc = "reply"
        /\ e.saved /\ f.saved
        /\ ScanRows(e.user) >= 1 /\ ScanRows(f.user) >= 1

\* C32: no request thread holds a reference into the Application: the client
\* is touched by the worker loop thread alone.
C32_ClientOnWorkerOnly == \A r \in Requests : http[r].app = None

\* C33: every GET /api/energy/<user_id> is answered, whatever the user id,
\* and the answer has scans_used_today = 0 when the user has no daily_energy
\* row for the current date.
C33_EnergyStatusNeverRaises ==
    [][\A r \in Requests, u \in Users :
          ApiEnergy(r, u) =>
             /\ http'[r].pc = "done"
             /\ <<u, Today(now)>> \notin DOMAIN daily_energy =>
                   http'[r].used_today = 0]_vars

\* bonus scans credited to a user so far within the day: those still held and
\* those consumed (the successful use_scan calls that were not taken from the
\* free bucket of the day)
BonusCredited(u) ==
    users[u].bonus_scans + (use_true[u] - UsedOn(daily_energy, u, Today(now)))

\* C34: a non-premium user never has more scans rows than the units that
\* were available to them: the daily allowance plus the bonus scans credited.
C34_ScansWithinUnits ==
    \A u \in Users \cap DOMAIN users :
        NonPremium(u) => ScanRows(u) <= FREE_DAILY_SCANS + BonusCredited(u)

\* the sum of g[i] over the indices i in S
RECURSIVE SumIdx(_, _)
SumIdx(g, S) ==
    IF S = {} THEN 0
    ELSE LET i == CHOOSE j \in S : TRUE IN g[i] + SumIdx(g, S \ {i})

\* amounts of the add_bonus_scans calls made for a user
RefillCredits(u) ==
    SumIdx([i \in 1..Len(transactions) |-> transactions[i].amount],
           {i \in 1..Len(transactions) :
               transactions[i].user_id = u /\ transactions[i].type = "scan_refill"})

\* rewards of a user as referrer and as referred user
ReferralCredits(u) ==
    REFERRAL_BONUS_SCANS *
       Cardinality({i \in 1..Len(referrals) : referrals[i].referrer_id = u})
    + SignupBonus *
         Cardinality({i \in 1..Len(referrals) : referrals[i].referred_id = u})

\* successful use_scan calls of a user that were not taken from a free bucket
BonusDebits(u) ==
    use_true[u] -
       SumIdx([k \in DOMAIN daily_energy |-> daily_energy[k]],
              {k \in DOMAIN daily_energy : k[1] = u})

\* C35: bonus_scans of every user equals the amounts credited to them
\* (add_bonus_scans amounts, referral rewards as referrer, signup bonus as
\* referred user) minus the successful use_scan calls debited from the bonus
\* bucket.
C35_BonusConserved ==
    \A u \in Users \cap DOMAIN users :
        users[u].bonus_scans =
            RefillCredits(u) + ReferralCredits(u) - BonusDebits(u)

\* the Application in _bot_app has been built, initialized and started
AppStarted == bot_app # None /\ inits[bot_app].st = "done"

\* C36: _initialized never goes back to False; while it is True, _bot_loop
\* holds the loop of a running worker thread and _bot_app an initialized and
\* started Application; and no request that passed _ensure_bot is answered 503.
C36_ReadinessMonotonic ==
    /\ [][initialized => initialized']_vars
    /\ [](initialized =>
             /\ bot_loop # None /\ threads[bot_loop] = "running"
             /\ AppStarted)
    /\ [](\A r \in Requests : http[r].status # 503)

\* the state of the coroutine of a request once it has been handed to the loop
Submitted == {"queued", "running", "done", "raised"}

\* C37: the coroutine of a request is handed to the worker loop by Dispatch
\* alone and once: no other step of the request thread, and neither an
\* exception nor a timeout of the wait, hands it over again, and a coroutine
\* that has run is never started again; every answer after a dispatch is 200.
C37_SubmittedOnce ==
    [][\A r \in Requests :
          /\ (http[r].upd = "none" /\ http'[r].upd # "none") =>
                (Dispatch(r) /\ http'[r].upd = "queued")
          /\ http[r].upd \in Submitted =>
                /\ ~ENABLED Dispatch(r)
                /\ http'[r].upd \in Submitted
                /\ http[r].upd # "queued" => http'[r].upd # "queued"
                /\ http[r].upd \in {"done", "raised"} => http'[r].upd = http[r].upd
                /\ http'[r].loop = http[r].loop
          /\ WebhookResponse(r) =>
                (http'[r].upd = http[r].upd /\ http'[r].status = 200)]_vars

\* C37 witness: a request whose wait timed out and a request whose coroutine
\* raised have both been answered 200, their coroutines submitted once and ended
C37_Witness ==
    \E r, q \in Requests :
        /\ http[r].pc = "done" /\ http[r].waited = "timeout" /\ http[r].upd = "done"
        /\ http[q].pc = "done" /\ http[q].waited = "raised" /\ http[q].upd = "raised"
        /\ http[r].status = 200 /\ http[q].status = 200

\* the table s2 holds the rows of s, in place and unchanged, and possibly more
Extends(s, s2) ==
    /\ Len(s2) >= Len(s)
    /\ \A i \in 1..Len(s) : s2[i] = s[i]

\* C38 (as claimed): no step deletes or rewrites a row of users, scans,
\* transactions or referrals.
C38_NoRowRewritten ==
    [][/\ \A u \in DOMAIN users : u \in DOMAIN users' /\ users'[u] = users[u]
       /\ Extends(scans, scans')
       /\ Extends(transactions, transactions')
       /\ Extends(referrals, referrals')]_vars

\* C38 (amended): no step deletes a row of users, scans, transactions or
\* referrals, and no step rewrites a row of scans, transactions or referrals:
\* these three tables only grow at the end, and an account once created exists
\* in every later state with the referral code it was created with, its other
\* fields being updated in place.
C38_AppendOnly ==
    [][/\ \A u \in DOMAIN users :
             /\ u \in DOMAIN users'
             /\ users'[u].referral_code = users[u].referral_code
       /\ Extends(scans, scans')
       /\ Extends(transactions, transactions')
       /\ Extends(referrals, referrals')]_vars

\* C38 witness: an account that has been updated in place (a scan counted, a
\* bonus credited) next to a scans row and a transactions row
C38_Witness ==
    \E u \in DOMAIN users :
        /\ users[u].total_scans > 0
        /\ users[u].bonus_scans = ENERGY_REFILL_STARS
        /\ \E i \in 1..Len(scans) : scans[i] = u
        /\ \E i \in 1..Len(transactions) : transactions[i].user_id = u

====
